---- MODULE Spec2Model ----
(***************************************************************************)
(* The entity lifecycle of the itafest backend: one document collection    *)
(* per resource type, and the request handlers (router + service) that     *)
(* create, fetch, update and delete its documents.                         *)
(*                                                                         *)
(* Reading conventions.                                                    *)
(*  - A handler is one action: the router function together with the       *)
(*    service function it awaits.  The response is recorded in `last`.     *)
(*  - Names resolve the way the code evidently means them: the document    *)
(*    fetched by get_<x>_by_id is the handle that save()/delete() act on,  *)
(*    datetime.utcnow() is the clock, get_notification_by_id is the fetch  *)
(*    of services/notification.py.                                         *)
(*  - Document.get/find parse the stored document through the Document     *)
(*    class, so its validators run on every read; Document.insert adds a   *)
(*    document; Document.save writes the whole document back and inserts   *)
(*    it when it is not in the collection (an upsert); Document.delete     *)
(*    removes it.                                                          *)
(*  - Time is a natural number; datetime.utcnow() returns `now`.           *)
(*  - Python None is NoneDate for datetime/number attributes and NoneStr   *)
(*    for string attributes, NoneList for list attributes.  An input      *)
(*    payload carries pydantic's fields_set: the attributes the caller     *)
(*    supplied.                                                            *)
(***************************************************************************)
EXTENDS Integers, Sequences, FiniteSets, TLC

VARIABLES db, now, nextId, last, deleted, inflight

vars == <<db, now, nextId, last, deleted, inflight>>

\* Bounds of the model.
MaxDocs == 1
MaxClock == 1
MaxInflight == 1
MaxReactions == 2
MaxRatings == 1
MaxComments == 1

Kinds == {"events", "promotions", "businesses", "messages", "users",
          "tickets", "reviews", "profiles", "notifications"}

NoneDate == 0 - 1
NoneStr == "None"
NoneList == <<"None">>
NoDoc == [none |-> TRUE]
NoReq == [none |-> TRUE]

Times == 0..MaxClock
Ids == 1..(MaxDocs + 1)

(***************************************************************************)
(* The persistence engine, as the services use it.                         *)
(***************************************************************************)
IdsOf(coll) == {coll[i].id : i \in DOMAIN coll}

Has(coll, id) == id \in IdsOf(coll)

\* Document.get(id): the stored document or None.
Find(coll, id) ==
  IF Has(coll, id) THEN coll[CHOOSE i \in DOMAIN coll : coll[i].id = id]
  ELSE NoDoc

\* Document.insert().
Insert(coll, doc) == Append(coll, doc)

\* Document.save(): replace the stored document of this identity, or insert it.
SaveUpsert(coll, doc) ==
  IF Has(coll, doc.id)
  THEN [i \in DOMAIN coll |-> IF coll[i].id = doc.id THEN doc ELSE coll[i]]
  ELSE Append(coll, doc)

Save(coll, doc) == SaveUpsert(coll, doc)

\* A delete that leaves the collection as it was.
RemoveNothing(coll, id) == coll

\* Document.delete().
Remove(coll, id) == SelectSeq(coll, LAMBDA d : d.id # id)

\* A $set of event_in.dict() without exclude_unset: every attribute of the
\* payload, supplied or not, overwrites the stored one.
SetFieldsAll(doc, req) ==
  [f \in DOMAIN doc |-> IF f \in DOMAIN req THEN req[f] ELSE doc[f]]

\* Document.update({"$set": fields}): the supplied attributes overwrite the stored ones.
SetFields(doc, req) ==
  [f \in DOMAIN doc |-> IF f \in req.fields_set THEN req[f] ELSE doc[f]]

\* What a handler answers: the handler, the identity it was given, its input,
\* the document it fetched, the body it returned and the HTTP status.
Resp(op, id, req, pre, out, status) ==
  [op |-> op, id |-> id, req |-> req, pre |-> pre, out |-> out, status |-> status]

\* The record of the latest request: the answer, the collection it addressed,
\* the clock when the handler ran, whether the identity had a document then,
\* whether the handler changed the collections, and whether it removed that
\* document.
Reply(kind, r) ==
  last' = [op |-> r.op, id |-> r.id, req |-> r.req, pre |-> r.pre, out |-> r.out,
           status |-> r.status, kind |-> kind, at |-> now,
           existed |-> Has(db[kind], r.id),
           wrote |-> (db' # db),
           removed |-> (Has(db[kind], r.id) /\ ~Has(db'[kind], r.id)),
           stale |-> (r.pre # NoDoc /\ Find(db[kind], r.id) # r.pre)]

\* find(...).skip(skip).limit(limit).to_list() over the matching documents in
\* their natural (insertion) order; a limit of 0 is no limit.
Window(seq, skip, limit) ==
  IF limit = 0 \/ skip + limit > Len(seq)
  THEN SubSeq(seq, skip + 1, Len(seq))
  ELSE SubSeq(seq, skip + 1, skip + limit)

\* The answer of a list handler: the documents found, each parsed through its
\* Document class on the way out of the collection.
ListReply(kind, op, req, found, parses) ==
  /\ UNCHANGED <<db, now, nextId, deleted, inflight>>
  /\ Reply(kind, IF parses THEN Resp(op, 0, req, NoDoc, found, 200)
                 ELSE Resp(op, 0, req, NoDoc, NoDoc, 500))

\* A query that compares categories with the first entry of the list only.
HasCategoryFirst(doc, category) ==
  doc.categories # <<>> /\ doc.categories[1] = category

\* <Document>.categories == category: equality against a list attribute matches
\* the documents whose list holds the value.
HasCategory(doc, category) ==
  \E i \in DOMAIN doc.categories : doc.categories[i] = category

\* The two default_factory=datetime.utcnow reads of a new document: created_at
\* first, updated_at second; the clock may move between them.
SecondReads == {t \in Times : t = now \/ t = now + 1}

(***************************************************************************)
(* Events: models/event.py, services/event.py, routers/event.py            *)
(***************************************************************************)
Titles == {"a", "b"}
Dates == Times

\* EventCreate: the attributes a caller can send (description, location and
\* organizer_id are plain required strings handled like title), drawn from the
\* given value sets.
EventCreateOver(T, D, C, S) ==
  [title : T, date : D, end_date : D \cup {NoneDate}, categories : C, status : S]

\* EventUpdate: every attribute optional, None unless supplied; F is the set of
\* attributes a caller may supply.  end_date may be supplied as null; the other
\* attributes are supplied with a value.
EventUpdateOver(F, T, D, C, S) ==
  {r \in [title : T \cup {NoneStr}, date : D \cup {NoneDate},
          end_date : D \cup {NoneDate}, categories : C \cup {NoneList},
          status : S \cup {NoneStr}, fields_set : SUBSET F] :
     /\ ("title" \in r.fields_set) <=> (r.title # NoneStr)
     /\ ("date" \in r.fields_set) <=> (r.date # NoneDate)
     /\ (r.end_date # NoneDate) => ("end_date" \in r.fields_set)
     /\ ("categories" \in r.fields_set) <=> (r.categories # NoneList)
     /\ ("status" \in r.fields_set) <=> (r.status # NoneStr)}

\* validate_end_date of EventCreate and of Event: date is a required attribute
\* validated before end_date, so it is in `values`.
EndDateOkLe(date, end_date) == ~(end_date # NoneDate /\ end_date <= date)

EndDateOk(date, end_date) == ~(end_date # NoneDate /\ end_date < date)

EventCreateValid(req) == EndDateOk(req.date, req.end_date)

\* Event.validate_end_date on a document read back from the collection.
EventParses(doc) == EndDateOk(doc.date, doc.end_date)

\* validate_end_date of EventUpdate: `values` always holds date (None when it was
\* not supplied), and a datetime compared with None raises TypeError, which
\* pydantic reports as a validation error.
EventUpdateValid(req) ==
  (req.end_date # NoneDate) => (req.date # NoneDate /\ ~(req.end_date < req.date))

\* Event(**event_in.dict()).
NewEvent(req, id, t1, t2) ==
  [id |-> id, title |-> req.title, date |-> req.date, end_date |-> req.end_date,
   categories |-> req.categories, status |-> req.status,
   created_at |-> t1, updated_at |-> t2]

\* create_event behind create_new_event; cap bounds the identities handed out.
CreateEventUpTo(req, cap) ==
  /\ nextId <= cap
  /\ IF ~EventCreateValid(req)
     THEN /\ UNCHANGED <<db, now, nextId, deleted, inflight>>
          /\ Reply("events", Resp("create_new_event", 0, req, NoDoc, NoDoc, 422))
     ELSE \E t2 \in SecondReads :
            LET event == NewEvent(req, nextId, now, t2) IN
              /\ db' = [db EXCEPT !.events = Insert(@, event)]
              /\ now' = t2
              /\ nextId' = nextId + 1
              /\ UNCHANGED <<deleted, inflight>>
              /\ Reply("events", Resp("create_new_event", event.id, req, NoDoc, event, 201))

CreateEvent(req) == CreateEventUpTo(req, MaxDocs)

GetEvent(id) ==
  LET event == Find(db.events, id) IN
    /\ UNCHANGED <<db, now, nextId, deleted, inflight>>
    /\ Reply("events",
             IF event = NoDoc
             THEN Resp("read_event", id, NoReq, NoDoc, NoDoc, 404)
             ELSE IF ~EventParses(event)
             THEN Resp("read_event", id, NoReq, NoDoc, NoDoc, 500)
             ELSE Resp("read_event", id, NoReq, event, event, 200))

\* update_event: the $set reaches the collection before Document.update parses
\* the result back through Event; whether a result that fails Event's validator
\* then aborts the handler is left open (both answers are allowed).
UpdateEvent(id, req) ==
  LET event == Find(db.events, id)
      updated == SetFields(event, req) IN
    IF ~EventUpdateValid(req)
    THEN /\ UNCHANGED <<db, now, nextId, deleted, inflight>>
         /\ Reply("events", Resp("update_existing_event", id, req, NoDoc, NoDoc, 422))
    ELSE IF event = NoDoc
    THEN /\ UNCHANGED <<db, now, nextId, deleted, inflight>>
         /\ Reply("events", Resp("update_existing_event", id, req, NoDoc, NoDoc, 404))
    ELSE IF ~EventParses(event)
    THEN /\ UNCHANGED <<db, now, nextId, deleted, inflight>>
         /\ Reply("events", Resp("update_existing_event", id, req, NoDoc, NoDoc, 500))
    ELSE /\ db' = [db EXCEPT !.events = Save(@, updated)]
         /\ UNCHANGED <<now, nextId, deleted, inflight>>
         /\ \/ Reply("events", Resp("update_existing_event", id, req, event, updated, 200))
            \/ /\ ~EventParses(updated)
               /\ Reply("events", Resp("update_existing_event", id, req, event, NoDoc, 500))

\* A delete_existing_event that does not look at what delete_event returns.
DeleteEventUnchecked(id) ==
  LET event == Find(db.events, id) IN
    IF event = NoDoc
    THEN /\ UNCHANGED <<db, now, nextId, deleted, inflight>>
         /\ Reply("events", Resp("delete_existing_event", id, NoReq, NoDoc, NoDoc, 204))
    ELSE /\ db' = [db EXCEPT !.events = Remove(@, id)]
         /\ deleted' = deleted \cup {<<"events", id>>}
         /\ UNCHANGED <<now, nextId, inflight>>
         /\ Reply("events", Resp("delete_existing_event", id, NoReq, event, NoDoc, 204))

DeleteEvent(id) ==
  LET event == Find(db.events, id) IN
    IF event = NoDoc
    THEN /\ UNCHANGED <<db, now, nextId, deleted, inflight>>
         /\ Reply("events", Resp("delete_existing_event", id, NoReq, NoDoc, NoDoc, 404))
    ELSE IF ~EventParses(event)
    THEN /\ UNCHANGED <<db, now, nextId, deleted, inflight>>
         /\ Reply("events", Resp("delete_existing_event", id, NoReq, NoDoc, NoDoc, 500))
    ELSE /\ db' = [db EXCEPT !.events = Remove(@, id)]
         /\ deleted' = deleted \cup {<<"events", id>>}
         /\ UNCHANGED <<now, nextId, inflight>>
         /\ Reply("events", Resp("delete_existing_event", id, NoReq, event, NoDoc, 204))

\* A date filter that leaves out the events that start at this very instant.
IsUpcomingGt(event, t) == event.date > t /\ event.status = "upcoming"

\* Event.date >= now, Event.status == EventStatus.UPCOMING
IsUpcoming(event, t) == event.date >= t /\ event.status = "upcoming"

\* Event.date < now, Event.status == EventStatus.COMPLETED
IsPast(event, t) == event.date < t /\ event.status = "completed"

\* list_events behind read_all_events.
ListEvents(skip, limit) ==
  LET found == Window(db.events, skip, limit) IN
    ListReply("events", "read_all_events", [skip |-> skip, limit |-> limit], found,
              \A i \in DOMAIN found : EventParses(found[i]))

\* list_events_by_category behind read_events_by_category.
ListEventsByCategory(category, skip, limit) ==
  LET found == Window(SelectSeq(db.events, LAMBDA d : HasCategory(d, category)),
                      skip, limit) IN
    ListReply("events", "read_events_by_category",
              [category |-> category, skip |-> skip, limit |-> limit], found,
              \A i \in DOMAIN found : EventParses(found[i]))

\* list_upcoming_events: the clock is read once, before the query.
ListUpcomingEvents(skip, limit) ==
  LET found == Window(SelectSeq(db.events, LAMBDA d : IsUpcoming(d, now)),
                      skip, limit) IN
    ListReply("events", "read_upcoming_events", [skip |-> skip, limit |-> limit],
              found, \A i \in DOMAIN found : EventParses(found[i]))

\* list_past_events.
ListPastEvents(skip, limit) ==
  LET found == Window(SelectSeq(db.events, LAMBDA d : IsPast(d, now)),
                      skip, limit) IN
    ListReply("events", "read_past_events", [skip |-> skip, limit |-> limit],
              found, \A i \in DOMAIN found : EventParses(found[i]))

(***************************************************************************)
(* Python truthiness, as the `if x:` tests of the services use it.         *)
(***************************************************************************)
NoneNum == 0 - 1

\* A Decimal or an int: None and zero are false.
TruthyNum(v) == v # NoneNum /\ v # 0

\* A str (or a str-valued Enum member): None and the empty string are false.
TruthyStr(v) == v # NoneStr /\ v # ""

\* A datetime: only None is false.
TruthyDate(v) == v # NoneDate

(***************************************************************************)
(* Tickets: models/ticket.py, services/ticket.py, routers/ticket.py        *)
(***************************************************************************)

\* TicketCreate: no validator.
TicketCreateOver(Ty, P, Q, D) ==
  [type : Ty, price : P, quantity : Q,
   sale_start_date : D \cup {NoneDate}, sale_end_date : D \cup {NoneDate}]

\* TicketUpdate: every attribute Optional, None unless supplied.
TicketUpdateOver(F, Ty, P, Q, S, D) ==
  {r \in [type : Ty \cup {NoneStr}, price : P \cup {NoneNum},
          quantity : Q \cup {NoneNum}, status : S \cup {NoneStr},
          sale_start_date : D \cup {NoneDate}, sale_end_date : D \cup {NoneDate},
          fields_set : SUBSET F] :
     /\ ("type" \in r.fields_set) <=> (r.type # NoneStr)
     /\ ("price" \in r.fields_set) <=> (r.price # NoneNum)
     /\ ("quantity" \in r.fields_set) <=> (r.quantity # NoneNum)
     /\ ("status" \in r.fields_set) <=> (r.status # NoneStr)
     /\ ("sale_start_date" \in r.fields_set) <=> (r.sale_start_date # NoneDate)
     /\ ("sale_end_date" \in r.fields_set) <=> (r.sale_end_date # NoneDate)}

\* Ticket(event_id=..., type=..., ...): status takes its default.
NewTicket(req, id, t1, t2) ==
  [id |-> id, event_id |-> "e", type |-> req.type, price |-> req.price,
   quantity |-> req.quantity, status |-> "Available",
   sale_start_date |-> req.sale_start_date, sale_end_date |-> req.sale_end_date,
   created_at |-> t1, updated_at |-> t2]

\* The body of update_ticket between the fetch and the save.
TicketApply(ticket, req, t) ==
  [ticket EXCEPT
     !.type = IF TruthyStr(req.type) THEN req.type ELSE @,
     !.price = IF TruthyNum(req.price) THEN req.price ELSE @,
     !.quantity = IF TruthyNum(req.quantity) THEN req.quantity ELSE @,
     !.status = IF TruthyStr(req.status) THEN req.status ELSE @,
     !.sale_start_date = IF TruthyDate(req.sale_start_date) THEN req.sale_start_date ELSE @,
     !.sale_end_date = IF TruthyDate(req.sale_end_date) THEN req.sale_end_date ELSE @,
     !.updated_at = t]

CreateTicket(req) ==
  /\ nextId <= MaxDocs
  /\ \E t2 \in SecondReads :
       LET new_ticket == NewTicket(req, nextId, now, t2) IN
         /\ db' = [db EXCEPT !.tickets = Insert(@, new_ticket)]
         /\ now' = t2
         /\ nextId' = nextId + 1
         /\ UNCHANGED <<deleted, inflight>>
         /\ Reply("tickets",
                  Resp("create_new_ticket", new_ticket.id, req, NoDoc, new_ticket, 201))

GetTicket(id) ==
  LET ticket == Find(db.tickets, id) IN
    /\ UNCHANGED <<db, now, nextId, deleted, inflight>>
    /\ Reply("tickets",
             IF ticket = NoDoc
             THEN Resp("read_ticket", id, NoReq, NoDoc, NoDoc, 404)
             ELSE Resp("read_ticket", id, NoReq, ticket, ticket, 200))

UpdateTicket(id, req) ==
  LET ticket == Find(db.tickets, id)
      updated == TicketApply(ticket, req, now) IN
    IF ticket = NoDoc
    THEN /\ UNCHANGED <<db, now, nextId, deleted, inflight>>
         /\ Reply("tickets", Resp("update_existing_ticket", id, req, NoDoc, NoDoc, 404))
    ELSE /\ db' = [db EXCEPT !.tickets = Save(@, updated)]
         /\ UNCHANGED <<now, nextId, deleted, inflight>>
         /\ Reply("tickets", Resp("update_existing_ticket", id, req, ticket, updated, 200))

\* delete_ticket returns None, and the router answers 404 unless the service
\* returned something true.
DeleteTicket(id) ==
  LET ticket == Find(db.tickets, id) IN
    IF ticket = NoDoc
    THEN /\ UNCHANGED <<db, now, nextId, deleted, inflight>>
         /\ Reply("tickets", Resp("delete_existing_ticket", id, NoReq, NoDoc, NoDoc, 404))
    ELSE /\ db' = [db EXCEPT !.tickets = Remove(@, id)]
         /\ deleted' = deleted \cup {<<"tickets", id>>}
         /\ UNCHANGED <<now, nextId, inflight>>
         /\ Reply("tickets", Resp("delete_existing_ticket", id, NoReq, ticket, NoDoc, 404))

(***************************************************************************)
(* Reviews: models/review.py, services/review.py, routers/review.py        *)
(***************************************************************************)
\* ReviewRating: ten integer counters, represented by star.
NoneRating == [star |-> NoneNum]

\* A pydantic model instance is always true; only None is false.
TruthyModel(v) == v # NoneRating

\* ReviewCreate: comment is Optional.
ReviewCreateOver(R, C) == [rating : R, comment : C \cup {NoneStr}]

\* ReviewUpdate: both attributes Optional, None unless supplied.
ReviewUpdateOver(F, R, C) ==
  {r \in [rating : R \cup {NoneRating}, comment : C \cup {NoneStr},
          fields_set : SUBSET F] :
     /\ ("rating" \in r.fields_set) <=> (r.rating # NoneRating)
     /\ ("comment" \in r.fields_set) <=> (r.comment # NoneStr)}

NewReview(req, id, t1, t2) ==
  [id |-> id, user_id |-> "u", target_id |-> "t", target_type |-> "event",
   rating |-> req.rating, comment |-> req.comment,
   created_at |-> t1, updated_at |-> t2]

\* The body of update_review between the fetch and the save.
ReviewApply(review, req, t) ==
  [review EXCEPT
     !.rating = IF TruthyModel(req.rating) THEN req.rating ELSE @,
     !.comment = IF TruthyStr(req.comment) THEN req.comment ELSE @,
     !.updated_at = t]

CreateReview(req) ==
  /\ nextId <= MaxDocs
  /\ \E t2 \in SecondReads :
       LET review == NewReview(req, nextId, now, t2) IN
         /\ db' = [db EXCEPT !.reviews = Insert(@, review)]
         /\ now' = t2
         /\ nextId' = nextId + 1
         /\ UNCHANGED <<deleted, inflight>>
         /\ Reply("reviews", Resp("create_new_review", review.id, req, NoDoc, review, 201))

GetReview(id) ==
  LET review == Find(db.reviews, id) IN
    /\ UNCHANGED <<db, now, nextId, deleted, inflight>>
    /\ Reply("reviews",
             IF review = NoDoc
             THEN Resp("read_review", id, NoReq, NoDoc, NoDoc, 404)
             ELSE Resp("read_review", id, NoReq, review, review, 200))

UpdateReview(id, req) ==
  LET review == Find(db.reviews, id)
      updated == ReviewApply(review, req, now) IN
    IF review = NoDoc
    THEN /\ UNCHANGED <<db, now, nextId, deleted, inflight>>
         /\ Reply("reviews", Resp("update_existing_review", id, req, NoDoc, NoDoc, 404))
    ELSE /\ db' = [db EXCEPT !.reviews = Save(@, updated)]
         /\ UNCHANGED <<now, nextId, deleted, inflight>>
         /\ Reply("reviews", Resp("update_existing_review", id, req, review, updated, 200))

\* delete_review returns None: the router answers 404 after the removal.
DeleteReview(id) ==
  LET review == Find(db.reviews, id) IN
    IF review = NoDoc
    THEN /\ UNCHANGED <<db, now, nextId, deleted, inflight>>
         /\ Reply("reviews", Resp("delete_existing_review", id, NoReq, NoDoc, NoDoc, 404))
    ELSE /\ db' = [db EXCEPT !.reviews = Remove(@, id)]
         /\ deleted' = deleted \cup {<<"reviews", id>>}
         /\ UNCHANGED <<now, nextId, inflight>>
         /\ Reply("reviews", Resp("delete_existing_review", id, NoReq, review, NoDoc, 404))

(***************************************************************************)
(* Promotions: models/promotion.py, services/promotion.py,                 *)
(* routers/promotion.py.  A discount is a number of hundredths of a        *)
(* percent.                                                                *)
(***************************************************************************)

\* PromotionCreate: discount is an unconstrained Decimal (start_date, end_date
\* and business_id are plain required attributes handled like title).
PromotionCreateOver(T, Di, C, S) ==
  [title : T, discount : Di, categories : C, status : S]

\* PromotionUpdate: every attribute optional, None unless supplied.
PromotionUpdateOver(F, T, Di, C, S) ==
  {r \in [title : T \cup {NoneStr}, discount : Di \cup {NoneNum},
          categories : C \cup {NoneList}, status : S \cup {NoneStr},
          fields_set : SUBSET F] :
     /\ ("title" \in r.fields_set) <=> (r.title # NoneStr)
     /\ ("discount" \in r.fields_set) <=> (r.discount # NoneNum)
     /\ ("categories" \in r.fields_set) <=> (r.categories # NoneList)
     /\ ("status" \in r.fields_set) <=> (r.status # NoneStr)}

\* A discount field declared ge=0, le=100.
DiscountOkGe(d) == d >= 0 /\ d <= 100 * 100

\* Promotion.discount: Field(..., gt=0, le=100).
DiscountOk(d) == d > 0 /\ d <= 100 * 100

\* Promotion(...) on a document read back from the collection.
PromotionParses(doc) == DiscountOk(doc.discount)

NewPromotion(req, id, t1, t2) ==
  [id |-> id, title |-> req.title, discount |-> req.discount,
   categories |-> req.categories, status |-> req.status,
   created_at |-> t1, updated_at |-> t2]

\* create_promotion: Promotion(**promotion_in.dict()) raises inside the handler
\* when the discount is out of range.
CreatePromotion(req) ==
  IF ~DiscountOk(req.discount)
  THEN /\ UNCHANGED <<db, now, nextId, deleted, inflight>>
       /\ Reply("promotions", Resp("create_new_promotion", 0, req, NoDoc, NoDoc, 500))
  ELSE /\ nextId <= MaxDocs
       /\ \E t2 \in SecondReads :
            LET promotion == NewPromotion(req, nextId, now, t2) IN
              /\ db' = [db EXCEPT !.promotions = Insert(@, promotion)]
              /\ now' = t2
              /\ nextId' = nextId + 1
              /\ UNCHANGED <<deleted, inflight>>
              /\ Reply("promotions",
                       Resp("create_new_promotion", promotion.id, req, NoDoc, promotion, 201))

GetPromotion(id) ==
  LET promotion == Find(db.promotions, id) IN
    /\ UNCHANGED <<db, now, nextId, deleted, inflight>>
    /\ Reply("promotions",
             IF promotion = NoDoc
             THEN Resp("read_promotion", id, NoReq, NoDoc, NoDoc, 404)
             ELSE IF ~PromotionParses(promotion)
             THEN Resp("read_promotion", id, NoReq, NoDoc, NoDoc, 500)
             ELSE Resp("read_promotion", id, NoReq, promotion, promotion, 200))

\* update_promotion: as update_event.
UpdatePromotion(id, req) ==
  LET promotion == Find(db.promotions, id)
      updated == SetFields(promotion, req) IN
    IF promotion = NoDoc
    THEN /\ UNCHANGED <<db, now, nextId, deleted, inflight>>
         /\ Reply("promotions", Resp("update_existing_promotion", id, req, NoDoc, NoDoc, 404))
    ELSE IF ~PromotionParses(promotion)
    THEN /\ UNCHANGED <<db, now, nextId, deleted, inflight>>
         /\ Reply("promotions", Resp("update_existing_promotion", id, req, NoDoc, NoDoc, 500))
    ELSE /\ db' = [db EXCEPT !.promotions = Save(@, updated)]
         /\ UNCHANGED <<now, nextId, deleted, inflight>>
         /\ \/ Reply("promotions",
                     Resp("update_existing_promotion", id, req, promotion, updated, 200))
            \/ /\ ~PromotionParses(updated)
               /\ Reply("promotions",
                        Resp("update_existing_promotion", id, req, promotion, NoDoc, 500))

DeletePromotion(id) ==
  LET promotion == Find(db.promotions, id) IN
    IF promotion = NoDoc
    THEN /\ UNCHANGED <<db, now, nextId, deleted, inflight>>
         /\ Reply("promotions", Resp("delete_existing_promotion", id, NoReq, NoDoc, NoDoc, 404))
    ELSE IF ~PromotionParses(promotion)
    THEN /\ UNCHANGED <<db, now, nextId, deleted, inflight>>
         /\ Reply("promotions", Resp("delete_existing_promotion", id, NoReq, NoDoc, NoDoc, 500))
    ELSE /\ db' = [db EXCEPT !.promotions = Remove(@, id)]
         /\ deleted' = deleted \cup {<<"promotions", id>>}
         /\ UNCHANGED <<now, nextId, inflight>>
         /\ Reply("promotions",
                  Resp("delete_existing_promotion", id, NoReq, promotion, NoDoc, 204))

\* list_promotions_by_category behind read_promotions_by_category.
ListPromotionsByCategory(category, skip, limit) ==
  LET found == Window(SelectSeq(db.promotions, LAMBDA d : HasCategory(d, category)),
                      skip, limit) IN
    ListReply("promotions", "read_promotions_by_category",
              [category |-> category, skip |-> skip, limit |-> limit], found,
              \A i \in DOMAIN found : PromotionParses(found[i]))

(***************************************************************************)
(* Businesses: models/business.py, services/business.py,                   *)
(* routers/business.py                                                     *)
(***************************************************************************)

\* BusinessCreate (email and the optional contact attributes are handled like
\* name).
BusinessCreateOver(N, C, S) == [name : N, categories : C, status : S]

\* BusinessUpdate: every attribute Optional, None unless supplied.
BusinessUpdateOver(F, N, C, S) ==
  {r \in [name : N \cup {NoneStr}, categories : C \cup {NoneList},
          status : S \cup {NoneStr}, fields_set : SUBSET F] :
     /\ ("name" \in r.fields_set) <=> (r.name # NoneStr)
     /\ ("categories" \in r.fields_set) <=> (r.categories # NoneList)
     /\ ("status" \in r.fields_set) <=> (r.status # NoneStr)}

NewBusiness(req, id, t1, t2) ==
  [id |-> id, name |-> req.name, categories |-> req.categories,
   status |-> req.status, created_at |-> t1, updated_at |-> t2]

CreateBusiness(req) ==
  /\ nextId <= MaxDocs
  /\ \E t2 \in SecondReads :
       LET business == NewBusiness(req, nextId, now, t2) IN
         /\ db' = [db EXCEPT !.businesses = Insert(@, business)]
         /\ now' = t2
         /\ nextId' = nextId + 1
         /\ UNCHANGED <<deleted, inflight>>
         /\ Reply("businesses",
                  Resp("create_new_business", business.id, req, NoDoc, business, 201))

GetBusiness(id) ==
  LET business == Find(db.businesses, id) IN
    /\ UNCHANGED <<db, now, nextId, deleted, inflight>>
    /\ Reply("businesses",
             IF business = NoDoc
             THEN Resp("read_business", id, NoReq, NoDoc, NoDoc, 404)
             ELSE Resp("read_business", id, NoReq, business, business, 200))

UpdateBusiness(id, req) ==
  LET business == Find(db.businesses, id)
      updated == SetFields(business, req) IN
    IF business = NoDoc
    THEN /\ UNCHANGED <<db, now, nextId, deleted, inflight>>
         /\ Reply("businesses", Resp("update_existing_business", id, req, NoDoc, NoDoc, 404))
    ELSE /\ db' = [db EXCEPT !.businesses = Save(@, updated)]
         /\ UNCHANGED <<now, nextId, deleted, inflight>>
         /\ Reply("businesses",
                  Resp("update_existing_business", id, req, business, updated, 200))

DeleteBusiness(id) ==
  LET business == Find(db.businesses, id) IN
    IF business = NoDoc
    THEN /\ UNCHANGED <<db, now, nextId, deleted, inflight>>
         /\ Reply("businesses", Resp("delete_existing_business", id, NoReq, NoDoc, NoDoc, 404))
    ELSE /\ db' = [db EXCEPT !.businesses = Remove(@, id)]
         /\ deleted' = deleted \cup {<<"businesses", id>>}
         /\ UNCHANGED <<now, nextId, inflight>>
         /\ Reply("businesses",
                  Resp("delete_existing_business", id, NoReq, business, NoDoc, 204))

\* list_businesses_by_category behind read_businesses_by_category.
ListBusinessesByCategory(category, skip, limit) ==
  LET found == Window(SelectSeq(db.businesses, LAMBDA d : HasCategory(d, category)),
                      skip, limit) IN
    ListReply("businesses", "read_businesses_by_category",
              [category |-> category, skip |-> skip, limit |-> limit], found, TRUE)

\* list_businesses behind read_all_businesses.
ListBusinesses(skip, limit) ==
  ListReply("businesses", "read_all_businesses", [skip |-> skip, limit |-> limit],
            Window(db.businesses, skip, limit), TRUE)

\* list_active_businesses behind read_active_businesses.
ListActiveBusinesses(skip, limit) ==
  ListReply("businesses", "read_active_businesses", [skip |-> skip, limit |-> limit],
            Window(SelectSeq(db.businesses, LAMBDA d : d.status = "active"),
                   skip, limit), TRUE)

(***************************************************************************)
(* Routing of GET requests: routers/event.py, routers/business.py.  A path *)
(* is the sequence of its segments below the router's prefix; a route is   *)
(* matched when every segment fits, a {parameter} fitting any segment, and *)
(* the first route registered that matches answers the request.            *)
(***************************************************************************)
Matches(pattern, path) ==
  /\ Len(pattern) = Len(path)
  /\ \A i \in DOMAIN pattern : pattern[i].param \/ pattern[i].lit = path[i]

\* The handler of the first matching route, in registration order.
Handler(routes, path) ==
  IF \E i \in DOMAIN routes : Matches(routes[i].pattern, path)
  THEN routes[CHOOSE i \in DOMAIN routes :
                /\ Matches(routes[i].pattern, path)
                /\ \A j \in DOMAIN routes : Matches(routes[j].pattern, path) => i <= j].handler
  ELSE "none"

\* The GET routes of the event router, as registered.
EventRoutes ==
  << [handler |-> "read_event", pattern |-> <<[param |-> TRUE, lit |-> "event_id"]>>],
     [handler |-> "read_all_events", pattern |-> <<>>],
     [handler |-> "read_events_by_category",
      pattern |-> <<[param |-> FALSE, lit |-> "category"],
                    [param |-> TRUE, lit |-> "category"]>>],
     [handler |-> "read_upcoming_events",
      pattern |-> <<[param |-> FALSE, lit |-> "upcoming"]>>],
     [handler |-> "read_past_events", pattern |-> <<[param |-> FALSE, lit |-> "past"]>>] >>

\* The GET routes of the business router, as registered.
BusinessRoutes ==
  << [handler |-> "read_business",
      pattern |-> <<[param |-> TRUE, lit |-> "business_id"]>>],
     [handler |-> "read_all_businesses", pattern |-> <<>>],
     [handler |-> "read_businesses_by_category",
      pattern |-> <<[param |-> FALSE, lit |-> "category"],
                    [param |-> TRUE, lit |-> "category"]>>],
     [handler |-> "read_active_businesses",
      pattern |-> <<[param |-> FALSE, lit |-> "active"]>>] >>

\* PydanticObjectId of a path segment: the identity the segment spells, 0 when
\* it spells none (the request is then refused with 422).
ObjectIdOf(segment) ==
  IF \E i \in Ids : ToString(i) = segment
  THEN CHOOSE i \in Ids : ToString(i) = segment
  ELSE 0

\* GET <path> under the event router with the query parameters skip and limit.
GetEventPath(path, skip, limit) ==
  LET handler == Handler(EventRoutes, path)
      refused == /\ UNCHANGED <<db, now, nextId, deleted, inflight>>
                 /\ Reply("events",
                          Resp(handler, 0, [path |-> path], NoDoc, NoDoc,
                               IF handler = "none" THEN 404 ELSE 422)) IN
    CASE handler = "read_event" ->
           IF ObjectIdOf(path[1]) = 0 THEN refused ELSE GetEvent(ObjectIdOf(path[1]))
      [] handler = "read_all_events" -> ListEvents(skip, limit)
      [] handler = "read_events_by_category" ->
           IF path[2] \in {"food", "entertainment"}
           THEN ListEventsByCategory(path[2], skip, limit) ELSE refused
      [] handler = "read_upcoming_events" -> ListUpcomingEvents(skip, limit)
      [] handler = "read_past_events" -> ListPastEvents(skip, limit)
      [] OTHER -> refused

\* GET <path> under the business router.
GetBusinessPath(path, skip, limit) ==
  LET handler == Handler(BusinessRoutes, path)
      refused == /\ UNCHANGED <<db, now, nextId, deleted, inflight>>
                 /\ Reply("businesses",
                          Resp(handler, 0, [path |-> path], NoDoc, NoDoc,
                               IF handler = "none" THEN 404 ELSE 422)) IN
    CASE handler = "read_business" ->
           IF ObjectIdOf(path[1]) = 0 THEN refused ELSE GetBusiness(ObjectIdOf(path[1]))
      [] handler = "read_all_businesses" -> ListBusinesses(skip, limit)
      [] handler = "read_businesses_by_category" ->
           IF path[2] \in {"food", "entertainment"}
           THEN ListBusinessesByCategory(path[2], skip, limit) ELSE refused
      [] handler = "read_active_businesses" -> ListActiveBusinesses(skip, limit)
      [] OTHER -> refused

(***************************************************************************)
(* Messages: models/message.py, services/message.py, routers/message.py    *)
(***************************************************************************)

\* MessageCreate (sender_id, receiver_id and message_type are copied as given).
MessageCreateOver(C) == [content : C]

\* MessageUpdate: every attribute optional, None unless supplied.  read is a
\* bool: it is None exactly when it is not in fields_set.
MessageUpdateOver(F, C, RL) ==
  {r \in [content : C \cup {NoneStr}, read : BOOLEAN,
          reactions : RL \cup {NoneList}, fields_set : SUBSET F] :
     /\ ("content" \in r.fields_set) <=> (r.content # NoneStr)
     /\ ("read" \notin r.fields_set) => (r.read = FALSE)
     /\ ("reactions" \in r.fields_set) <=> (r.reactions # NoneList)}

\* A constructor that reads the clock for updated_at first and for sent_at and
\* created_at last.
NewMessageLate(req, id, t1, t2) ==
  [id |-> id, sender_id |-> "u1", receiver_id |-> "u2",
   message_type |-> "user_to_user", content |-> req.content, sent_at |-> t2,
   read |-> FALSE, reactions |-> <<>>, created_at |-> t2, updated_at |-> t1]

\* Message(...): read and reactions take their defaults; sent_at and created_at
\* are read from the clock first, updated_at last.
NewMessage(req, id, t1, t2) ==
  [id |-> id, sender_id |-> "u1", receiver_id |-> "u2",
   message_type |-> "user_to_user", content |-> req.content, sent_at |-> t1,
   read |-> FALSE, reactions |-> <<>>, created_at |-> t1, updated_at |-> t2]

\* An update that also stamps created_at.
MessageApplyRestamp(message, req, t) ==
  [message EXCEPT
     !.content = IF req.content # NoneStr THEN req.content ELSE @,
     !.read = IF "read" \in req.fields_set THEN req.read ELSE @,
     !.reactions = IF req.reactions # NoneList THEN req.reactions ELSE @,
     !.created_at = t,
     !.updated_at = t]

\* The body of update_message between the fetch and the save.
MessageApply(message, req, t) ==
  [message EXCEPT
     !.content = IF req.content # NoneStr THEN req.content ELSE @,
     !.read = IF "read" \in req.fields_set THEN req.read ELSE @,
     !.reactions = IF req.reactions # NoneList THEN req.reactions ELSE @,
     !.updated_at = t]

CreateMessage(req) ==
  /\ nextId <= MaxDocs
  /\ \E t2 \in SecondReads :
       LET new_message == NewMessage(req, nextId, now, t2) IN
         /\ db' = [db EXCEPT !.messages = Insert(@, new_message)]
         /\ now' = t2
         /\ nextId' = nextId + 1
         /\ UNCHANGED <<deleted, inflight>>
         /\ Reply("messages",
                  Resp("create_new_message", new_message.id, req, NoDoc, new_message, 201))

GetMessage(id) ==
  LET message == Find(db.messages, id) IN
    /\ UNCHANGED <<db, now, nextId, deleted, inflight>>
    /\ Reply("messages",
             IF message = NoDoc
             THEN Resp("read_message", id, NoReq, NoDoc, NoDoc, 404)
             ELSE Resp("read_message", id, NoReq, message, message, 200))

UpdateMessage(id, req) ==
  LET message == Find(db.messages, id)
      updated == MessageApply(message, req, now) IN
    IF message = NoDoc
    THEN /\ UNCHANGED <<db, now, nextId, deleted, inflight>>
         /\ Reply("messages", Resp("update_existing_message", id, req, NoDoc, NoDoc, 404))
    ELSE /\ db' = [db EXCEPT !.messages = Save(@, updated)]
         /\ UNCHANGED <<now, nextId, deleted, inflight>>
         /\ Reply("messages",
                  Resp("update_existing_message", id, req, message, updated, 200))

\* delete_message returns None: the router answers 404 after the removal.
DeleteMessage(id) ==
  LET message == Find(db.messages, id) IN
    IF message = NoDoc
    THEN /\ UNCHANGED <<db, now, nextId, deleted, inflight>>
         /\ Reply("messages", Resp("delete_existing_message", id, NoReq, NoDoc, NoDoc, 404))
    ELSE /\ db' = [db EXCEPT !.messages = Remove(@, id)]
         /\ deleted' = deleted \cup {<<"messages", id>>}
         /\ UNCHANGED <<now, nextId, inflight>>
         /\ Reply("messages",
                  Resp("delete_existing_message", id, NoReq, message, NoDoc, 404))

\* Reaction: an emoji and the user who reacted.
ReactionsOver(U, Em) == [emoji : Em, user_id : U]

\* message.reactions.append(reaction)
AddTo(reactions, reaction) == Append(reactions, reaction)

\* A removal that drops the first matching reaction only.
RemoveFirstFrom(reactions, user_id, emoji) ==
  LET hits == {i \in DOMAIN reactions :
                 reactions[i].user_id = user_id /\ reactions[i].emoji = emoji} IN
    IF hits = {} THEN reactions
    ELSE LET first == CHOOSE i \in hits : \A j \in hits : i <= j IN
           SubSeq(reactions, 1, first - 1) \o SubSeq(reactions, first + 1, Len(reactions))

\* [r for r in message.reactions if not (r.user_id == user_id and r.emoji == emoji)]
RemoveFrom(reactions, user_id, emoji) ==
  SelectSeq(reactions, LAMBDA r : ~(r.user_id = user_id /\ r.emoji = emoji))

\* A handler that reads the message again just before it saves.
HeldFresh(h) == IF Has(db.messages, h.id) THEN Find(db.messages, h.id) ELSE h.message

\* The message a handler works on after its fetch: the object it fetched.
Held(h) == h.message

\* The body of add_reaction_to_message between the fetch and the save.
ReactionAdded(message, reaction, t) ==
  [message EXCEPT !.reactions = AddTo(@, reaction), !.updated_at = t]

\* The body of remove_reaction_from_message between the fetch and the save.
ReactionRemoved(message, user_id, emoji, t) ==
  [message EXCEPT !.reactions = RemoveFrom(@, user_id, emoji), !.updated_at = t]

\* add_reaction_to_message behind add_reaction, run without interruption.
AddReaction(id, reaction) ==
  LET message == Find(db.messages, id)
      updated == ReactionAdded(message, reaction, now) IN
    IF message = NoDoc
    THEN /\ UNCHANGED <<db, now, nextId, deleted, inflight>>
         /\ Reply("messages", Resp("add_reaction", id, reaction, NoDoc, NoDoc, 404))
    ELSE /\ Len(message.reactions) < MaxReactions
         /\ db' = [db EXCEPT !.messages = Save(@, updated)]
         /\ UNCHANGED <<now, nextId, deleted, inflight>>
         /\ Reply("messages", Resp("add_reaction", id, reaction, message, updated, 200))

\* remove_reaction_from_message behind remove_reaction.
RemoveReaction(id, target) ==
  LET message == Find(db.messages, id)
      updated == ReactionRemoved(message, target.user_id, target.emoji, now) IN
    IF message = NoDoc
    THEN /\ UNCHANGED <<db, now, nextId, deleted, inflight>>
         /\ Reply("messages", Resp("remove_reaction", id, target, NoDoc, NoDoc, 404))
    ELSE /\ db' = [db EXCEPT !.messages = Save(@, updated)]
         /\ UNCHANGED <<now, nextId, deleted, inflight>>
         /\ Reply("messages", Resp("remove_reaction", id, target, message, updated, 200))

\* add_reaction_to_message up to its first await: the fetch.  The handler
\* then holds the fetched message while other requests run.
BeginAddReaction(id, reaction) ==
  LET message == Find(db.messages, id) IN
    /\ Len(inflight) < MaxInflight
    /\ IF message = NoDoc
       THEN /\ UNCHANGED <<db, now, nextId, deleted, inflight>>
            /\ Reply("messages", Resp("add_reaction", id, reaction, NoDoc, NoDoc, 404))
       ELSE /\ Len(message.reactions) < MaxReactions
            /\ inflight' = Append(inflight,
                                  [id |-> id, req |-> reaction, message |-> message])
            /\ UNCHANGED <<db, now, nextId, deleted, last>>

\* add_reaction_to_message from the fetch on: the append, the clock read and
\* the save of the whole message.
FinishAddReaction ==
  /\ inflight # <<>>
  /\ LET h == Head(inflight)
         updated == ReactionAdded(Held(h), h.req, now) IN
       /\ db' = [db EXCEPT !.messages = Save(@, updated)]
       /\ inflight' = Tail(inflight)
       /\ UNCHANGED <<now, nextId, deleted>>
       /\ Reply("messages", Resp("add_reaction", h.id, h.req, h.message, updated, 200))

(***************************************************************************)
(* Users: models/user.py, services/user.py, routers/user.py                *)
(***************************************************************************)
Names == {"ann", "bob"}

\* UserCreate.
UserCreateOver(E, N, R) == [email : E, password : {"pw"}, full_name : N, role : R]

\* UserUpdate: both attributes optional, None unless supplied.
UserUpdateOver(F, N, R) ==
  {r \in [full_name : N \cup {NoneStr}, role : R \cup {NoneStr},
          fields_set : SUBSET F] :
     /\ ("full_name" \in r.fields_set) <=> (r.full_name # NoneStr)
     /\ ("role" \in r.fields_set) <=> (r.role # NoneStr)}

\* pwd_context.hash: a one-way image of the password.
Hash(password) == [bcrypt |-> password]

\* A lookup that never finds the email.
FindByEmailNever(coll, email) == NoDoc

\* User.find_one(User.email == email): a stored user of that email, or None.
FindByEmail(coll, email) ==
  IF \E i \in DOMAIN coll : coll[i].email = email
  THEN coll[CHOOSE i \in DOMAIN coll :
              /\ coll[i].email = email
              /\ \A j \in DOMAIN coll : coll[j].email = email => i <= j]
  ELSE NoDoc

\* A constructor that hands every new user the same identity.
NewUserSameId(req, id, t1, t2) ==
  [id |-> 1, email |-> req.email, hashed_password |-> Hash(req.password),
   full_name |-> req.full_name, is_active |-> TRUE, role |-> req.role,
   created_at |-> t1, updated_at |-> t2]

NewUser(req, id, t1, t2) ==
  [id |-> id, email |-> req.email, hashed_password |-> Hash(req.password),
   full_name |-> req.full_name, is_active |-> TRUE, role |-> req.role,
   created_at |-> t1, updated_at |-> t2]

\* UserOut(...): the stored user without its hashed password.
UserOutOf(user) ==
  [id |-> user.id, email |-> user.email, full_name |-> user.full_name,
   is_active |-> user.is_active, role |-> user.role,
   created_at |-> user.created_at, updated_at |-> user.updated_at]

\* An update that stamps the user with a time before its creation.
UserApplyEarly(user, req, t) ==
  [user EXCEPT
     !.full_name = IF req.full_name # NoneStr THEN req.full_name ELSE @,
     !.role = IF req.role # NoneStr THEN req.role ELSE @,
     !.updated_at = user.created_at - 1]

\* The body of update_user between the fetch and the save.
UserApply(user, req, t) ==
  [user EXCEPT
     !.full_name = IF req.full_name # NoneStr THEN req.full_name ELSE @,
     !.role = IF req.role # NoneStr THEN req.role ELSE @,
     !.updated_at = t]

\* create_user behind create_new_user; cap bounds the number of inserts of a
\* behaviour, the rejection of a registered email is always possible.
CreateUserUpTo(req, cap) ==
  IF FindByEmail(db.users, req.email) # NoDoc
  THEN /\ UNCHANGED <<db, now, nextId, deleted, inflight>>
       /\ Reply("users", Resp("create_new_user", 0, req, NoDoc, NoDoc, 400))
  ELSE /\ nextId <= cap
       /\ \E t2 \in SecondReads :
            LET new_user == NewUser(req, nextId, now, t2) IN
              /\ db' = [db EXCEPT !.users = Insert(@, new_user)]
              /\ now' = t2
              /\ nextId' = nextId + 1
              /\ UNCHANGED <<deleted, inflight>>
              /\ Reply("users",
                       Resp("create_new_user", new_user.id, req, NoDoc,
                            UserOutOf(new_user), 201))

CreateUser(req) == CreateUserUpTo(req, MaxDocs)

\* create_user up to its first await: the lookup of the email.  The handler
\* then holds the payload while other requests run.
BeginCreateUser(req) ==
  /\ Len(inflight) < MaxInflight
  /\ IF FindByEmail(db.users, req.email) # NoDoc
     THEN /\ UNCHANGED <<db, now, nextId, deleted, inflight>>
          /\ Reply("users", Resp("create_new_user", 0, req, NoDoc, NoDoc, 400))
     ELSE /\ inflight' = Append(inflight, [id |-> 0, req |-> req])
          /\ UNCHANGED <<db, now, nextId, deleted, last>>

\* create_user from the lookup on: the hash, the new User and the insert.
FinishCreateUserUpTo(cap) ==
  /\ inflight # <<>>
  /\ nextId <= cap
  /\ \E t2 \in SecondReads :
       LET req == Head(inflight).req
           new_user == NewUser(req, nextId, now, t2) IN
         /\ db' = [db EXCEPT !.users = Insert(@, new_user)]
         /\ now' = t2
         /\ nextId' = nextId + 1
         /\ inflight' = Tail(inflight)
         /\ UNCHANGED deleted
         /\ Reply("users",
                  Resp("create_new_user", new_user.id, req, NoDoc,
                       UserOutOf(new_user), 201))

GetUser(id) ==
  LET user == Find(db.users, id) IN
    /\ UNCHANGED <<db, now, nextId, deleted, inflight>>
    /\ Reply("users",
             IF user = NoDoc
             THEN Resp("read_user", id, NoReq, NoDoc, NoDoc, 404)
             ELSE Resp("read_user", id, NoReq, user, UserOutOf(user), 200))

\* update_user, run without interruption.
UpdateUser(id, req) ==
  LET user == Find(db.users, id)
      updated == UserApply(user, req, now) IN
    IF user = NoDoc
    THEN /\ UNCHANGED <<db, now, nextId, deleted, inflight>>
         /\ Reply("users", Resp("update_existing_user", id, req, NoDoc, NoDoc, 404))
    ELSE /\ db' = [db EXCEPT !.users = Save(@, updated)]
         /\ UNCHANGED <<now, nextId, deleted, inflight>>
         /\ Reply("users",
                  Resp("update_existing_user", id, req, user, UserOutOf(updated), 200))

\* update_user up to its first await: the fetch.  The handler then holds the
\* fetched user while other requests run.
BeginUpdateUser(id, req) ==
  LET user == Find(db.users, id) IN
    /\ Len(inflight) < MaxInflight
    /\ IF user = NoDoc
       THEN /\ UNCHANGED <<db, now, nextId, deleted, inflight>>
            /\ Reply("users", Resp("update_existing_user", id, req, NoDoc, NoDoc, 404))
       ELSE /\ inflight' = Append(inflight, [id |-> id, req |-> req, user |-> user])
            /\ UNCHANGED <<db, now, nextId, deleted, last>>

\* update_user from the fetch on: the assignments, the clock read and the save.
FinishUpdateUser ==
  /\ inflight # <<>>
  /\ LET h == Head(inflight)
         updated == UserApply(h.user, h.req, now) IN
       /\ db' = [db EXCEPT !.users = Save(@, updated)]
       /\ inflight' = Tail(inflight)
       /\ UNCHANGED <<now, nextId, deleted>>
       /\ Reply("users",
                Resp("update_existing_user", h.id, h.req, h.user, UserOutOf(updated), 200))

\* delete_existing_user does not look at what delete_user returns.
DeleteUser(id) ==
  LET user == Find(db.users, id) IN
    IF user = NoDoc
    THEN /\ UNCHANGED <<db, now, nextId, deleted, inflight>>
         /\ Reply("users", Resp("delete_existing_user", id, NoReq, NoDoc, NoDoc, 404))
    ELSE /\ db' = [db EXCEPT !.users = Remove(@, id)]
         /\ deleted' = deleted \cup {<<"users", id>>}
         /\ UNCHANGED <<now, nextId, inflight>>
         /\ Reply("users", Resp("delete_existing_user", id, NoReq, user, NoDoc, 204))

(***************************************************************************)
(* User profiles: models/user_profile.py, services/user_profile.py,        *)
(* routers/user_profile.py                                                 *)
(***************************************************************************)

\* UserProfileCreate (profile_picture and social_media_links are handled like
\* bio, show_comments like allow_chat).
ProfileCreateOver(B, A, BL) ==
  [bio : B \cup {NoneStr}, allow_chat : A, blocked_users : BL]

\* UserProfileUpdate: every attribute optional, None unless supplied.
\* allow_chat is a bool: it is None exactly when it is not in fields_set.
ProfileUpdateOver(F, B, BL) ==
  {r \in [bio : B \cup {NoneStr}, allow_chat : BOOLEAN,
          blocked_users : BL \cup {NoneList}, fields_set : SUBSET F] :
     /\ ("bio" \in r.fields_set) <=> (r.bio # NoneStr)
     /\ ("allow_chat" \notin r.fields_set) => (r.allow_chat = FALSE)
     /\ ("blocked_users" \in r.fields_set) <=> (r.blocked_users # NoneList)}

\* EmojiRating(): every counter zero (eleven counters, represented by two).
NewEmojiRating == [hearts |-> 0, thumbs_up |-> 0]

NewProfile(req, id, t1, t2) ==
  [id |-> id, user_id |-> "u", bio |-> req.bio, emoji_ratings |-> NewEmojiRating,
   comments |-> <<>>, allow_chat |-> req.allow_chat,
   blocked_users |-> req.blocked_users, created_at |-> t1, updated_at |-> t2]

\* The body of update_user_profile between the fetch and the save.
ProfileApply(profile, req, t) ==
  [profile EXCEPT
     !.bio = IF req.bio # NoneStr THEN req.bio ELSE @,
     !.allow_chat = IF "allow_chat" \in req.fields_set THEN req.allow_chat ELSE @,
     !.blocked_users = IF req.blocked_users # NoneList THEN req.blocked_users ELSE @,
     !.updated_at = t]

CreateProfile(req) ==
  /\ nextId <= MaxDocs
  /\ \E t2 \in SecondReads :
       LET new_profile == NewProfile(req, nextId, now, t2) IN
         /\ db' = [db EXCEPT !.profiles = Insert(@, new_profile)]
         /\ now' = t2
         /\ nextId' = nextId + 1
         /\ UNCHANGED <<deleted, inflight>>
         /\ Reply("profiles",
                  Resp("create_new_user_profile", new_profile.id, req, NoDoc,
                       new_profile, 201))

GetProfile(id) ==
  LET profile == Find(db.profiles, id) IN
    /\ UNCHANGED <<db, now, nextId, deleted, inflight>>
    /\ Reply("profiles",
             IF profile = NoDoc
             THEN Resp("read_user_profile", id, NoReq, NoDoc, NoDoc, 404)
             ELSE Resp("read_user_profile", id, NoReq, profile, profile, 200))

UpdateProfile(id, req) ==
  LET profile == Find(db.profiles, id)
      updated == ProfileApply(profile, req, now) IN
    IF profile = NoDoc
    THEN /\ UNCHANGED <<db, now, nextId, deleted, inflight>>
         /\ Reply("profiles",
                  Resp("update_existing_user_profile", id, req, NoDoc, NoDoc, 404))
    ELSE /\ db' = [db EXCEPT !.profiles = Save(@, updated)]
         /\ UNCHANGED <<now, nextId, deleted, inflight>>
         /\ Reply("profiles",
                  Resp("update_existing_user_profile", id, req, profile, updated, 200))

DeleteProfile(id) ==
  LET profile == Find(db.profiles, id) IN
    IF profile = NoDoc
    THEN /\ UNCHANGED <<db, now, nextId, deleted, inflight>>
         /\ Reply("profiles",
                  Resp("delete_existing_user_profile", id, NoReq, NoDoc, NoDoc, 404))
    ELSE /\ db' = [db EXCEPT !.profiles = Remove(@, id)]
         /\ deleted' = deleted \cup {<<"profiles", id>>}
         /\ UNCHANGED <<now, nextId, inflight>>
         /\ Reply("profiles",
                  Resp("delete_existing_user_profile", id, NoReq, profile, NoDoc, 204))

\* list.remove(x): the list without the first entry equal to x.
RemoveFirst(list, x) ==
  LET first == CHOOSE i \in DOMAIN list :
                 list[i] = x /\ \A j \in DOMAIN list : list[j] = x => i <= j IN
    SubSeq(list, 1, first - 1) \o SubSeq(list, first + 1, Len(list))

\* The answer of a special-case mutator of a profile: 404 from the fetch, or
\* the profile the handler ends with, saved first when the handler saves.
ProfileMutation(op, id, req, result) ==
  LET profile == Find(db.profiles, id) IN
    IF profile = NoDoc
    THEN /\ UNCHANGED <<db, now, nextId, deleted, inflight>>
         /\ Reply("profiles", Resp(op, id, req, NoDoc, NoDoc, 404))
    ELSE /\ db' = [db EXCEPT !.profiles =
                     IF result.save THEN Save(@, result.profile) ELSE @]
         /\ UNCHANGED <<now, nextId, deleted, inflight>>
         /\ Reply("profiles", Resp(op, id, req, profile, result.profile, 200))

\* add_comment_to_profile behind add_comment.
AddComment(id, comment) ==
  LET profile == Find(db.profiles, id) IN
    /\ profile # NoDoc => Len(profile.comments) < MaxComments
    /\ ProfileMutation("add_comment", id, comment,
                       IF profile = NoDoc THEN NoDoc
                       ELSE [save |-> TRUE,
                             profile |-> [profile EXCEPT
                                            !.comments = Append(@, comment),
                                            !.updated_at = now]])

\* The body of add_emoji_rating_to_profile between the fetch and the save: the
\* if/elif chain over the emoji types, then the clock read.
RatingAdded(profile, emoji, t) ==
  [profile EXCEPT
     !.emoji_ratings = IF emoji = "heart" THEN [@ EXCEPT !.hearts = @ + 1]
                       ELSE IF emoji = "thumbs_up" THEN [@ EXCEPT !.thumbs_up = @ + 1]
                       ELSE @,
     !.updated_at = t]

\* The counters stay within the bound after one more rating.
RatingFits(profile, emoji) ==
  \A f \in DOMAIN NewEmojiRating :
    RatingAdded(profile, emoji, now).emoji_ratings[f] <= MaxRatings

\* add_emoji_rating_to_profile behind add_emoji, run without interruption.
AddEmojiRating(id, emoji) ==
  LET profile == Find(db.profiles, id) IN
    /\ profile # NoDoc => RatingFits(profile, emoji)
    /\ ProfileMutation("add_emoji", id, emoji,
                       IF profile = NoDoc THEN NoDoc
                       ELSE [save |-> TRUE, profile |-> RatingAdded(profile, emoji, now)])

\* add_emoji_rating_to_profile up to its first await: the fetch.
BeginAddEmojiRating(id, emoji) ==
  LET profile == Find(db.profiles, id) IN
    /\ Len(inflight) < MaxInflight
    /\ IF profile = NoDoc
       THEN /\ UNCHANGED <<db, now, nextId, deleted, inflight>>
            /\ Reply("profiles", Resp("add_emoji", id, emoji, NoDoc, NoDoc, 404))
       ELSE /\ RatingFits(profile, emoji)
            /\ inflight' = Append(inflight,
                                  [id |-> id, req |-> emoji, profile |-> profile])
            /\ UNCHANGED <<db, now, nextId, deleted, last>>

\* add_emoji_rating_to_profile from the fetch on: the increment, the clock read
\* and the save of the whole profile.
FinishAddEmojiRating ==
  /\ inflight # <<>>
  /\ LET h == Head(inflight)
         updated == RatingAdded(h.profile, h.req, now) IN
       /\ db' = [db EXCEPT !.profiles = Save(@, updated)]
       /\ inflight' = Tail(inflight)
       /\ UNCHANGED <<now, nextId, deleted>>
       /\ Reply("profiles", Resp("add_emoji", h.id, h.req, h.profile, updated, 200))

\* block_user behind block_user_from_profile: appends and saves only when the
\* user is not in the list yet.
BlockUser(id, user_to_block_id) ==
  LET profile == Find(db.profiles, id) IN
    ProfileMutation("block_user_from_profile", id, user_to_block_id,
                    IF profile = NoDoc THEN NoDoc
                    ELSE IF \E i \in DOMAIN profile.blocked_users :
                              profile.blocked_users[i] = user_to_block_id
                    THEN [save |-> FALSE, profile |-> profile]
                    ELSE [save |-> TRUE,
                          profile |-> [profile EXCEPT
                                         !.blocked_users = Append(@, user_to_block_id),
                                         !.updated_at = now]])

\* unblock_user behind unblock_user_from_profile: removes and saves only when
\* the user is in the list.
UnblockUser(id, user_to_unblock_id) ==
  LET profile == Find(db.profiles, id) IN
    ProfileMutation("unblock_user_from_profile", id, user_to_unblock_id,
                    IF profile = NoDoc THEN NoDoc
                    ELSE IF \E i \in DOMAIN profile.blocked_users :
                              profile.blocked_users[i] = user_to_unblock_id
                    THEN [save |-> TRUE,
                          profile |-> [profile EXCEPT
                                         !.blocked_users = RemoveFirst(@, user_to_unblock_id),
                                         !.updated_at = now]]
                    ELSE [save |-> FALSE, profile |-> profile])

(***************************************************************************)
(* Notifications: models/notification.py, services/notification.py,        *)
(* routers/notification.py                                                 *)
(***************************************************************************)
NoneTarget == [user_ids |-> NoneList, all_users |-> FALSE]

\* The HTTP statuses the push gateway may answer with.
GatewayStatuses == {200, 401, 500}

\* NotificationCreate.
NotificationCreateOver(T, Ty) ==
  [title : T, message : {"m"}, type : Ty, target : {[user_ids |-> <<>>, all_users |-> TRUE]}]

\* NotificationUpdate: every attribute optional, None unless supplied.
NotificationUpdateOver(F, T, Ty) ==
  {r \in [title : T \cup {NoneStr}, message : {"m", NoneStr},
          type : Ty \cup {NoneStr}, target : {[user_ids |-> <<>>, all_users |-> TRUE]} \cup {NoneTarget},
          fields_set : SUBSET F] :
     /\ ("title" \in r.fields_set) <=> (r.title # NoneStr)
     /\ ("message" \in r.fields_set) <=> (r.message # NoneStr)
     /\ ("type" \in r.fields_set) <=> (r.type # NoneStr)
     /\ ("target" \in r.fields_set) <=> (r.target # NoneTarget)}

\* Notification(...): sent_at and created_at are read from the clock first,
\* updated_at last.
NewNotification(req, id, t1, t2) ==
  [id |-> id, title |-> req.title, message |-> req.message, type |-> req.type,
   target |-> req.target, sent_at |-> t1, created_at |-> t1, updated_at |-> t2]

\* The body of update_notification between the fetch and the save.
NotificationApply(notification, req, t) ==
  [notification EXCEPT
     !.title = IF TruthyStr(req.title) THEN req.title ELSE @,
     !.message = IF TruthyStr(req.message) THEN req.message ELSE @,
     !.type = IF TruthyStr(req.type) THEN req.type ELSE @,
     !.target = IF req.target # NoneTarget THEN req.target ELSE @,
     !.updated_at = t]

\* send_push_notification raises HTTPException(status_code=g) unless g is 200.
PushFailed(g) == g # 200

\* A create that keeps the document only when the push succeeded.
CreateNotificationUndone(req) ==
  /\ nextId <= MaxDocs
  /\ \E t2 \in SecondReads, g \in GatewayStatuses :
       LET new_notification == NewNotification(req, nextId, now, t2) IN
         /\ db' = [db EXCEPT !.notifications =
                     IF PushFailed(g) THEN @ ELSE Insert(@, new_notification)]
         /\ now' = t2
         /\ nextId' = nextId + 1
         /\ UNCHANGED <<deleted, inflight>>
         /\ Reply("notifications",
                  IF PushFailed(g)
                  THEN Resp("create_notification_endpoint", new_notification.id, req,
                            NoDoc, NoDoc, g)
                  ELSE Resp("create_notification_endpoint", new_notification.id, req,
                            NoDoc, new_notification, 200))

\* create_notification: the insert, then the push.
CreateNotification(req) ==
  /\ nextId <= MaxDocs
  /\ \E t2 \in SecondReads, g \in GatewayStatuses :
       LET new_notification == NewNotification(req, nextId, now, t2) IN
         /\ db' = [db EXCEPT !.notifications = Insert(@, new_notification)]
         /\ now' = t2
         /\ nextId' = nextId + 1
         /\ UNCHANGED <<deleted, inflight>>
         /\ Reply("notifications",
                  IF PushFailed(g)
                  THEN Resp("create_notification_endpoint", new_notification.id, req,
                            NoDoc, NoDoc, g)
                  ELSE Resp("create_notification_endpoint", new_notification.id, req,
                            NoDoc, new_notification, 200))

GetNotification(id) ==
  LET notification == Find(db.notifications, id) IN
    /\ UNCHANGED <<db, now, nextId, deleted, inflight>>
    /\ Reply("notifications",
             IF notification = NoDoc
             THEN Resp("get_notification_endpoint", id, NoReq, NoDoc, NoDoc, 404)
             ELSE Resp("get_notification_endpoint", id, NoReq, notification,
                       notification, 200))

\* get_all_notifications behind get_all_notifications_endpoint.
ListNotifications ==
  ListReply("notifications", "get_all_notifications_endpoint", NoReq,
            db.notifications, TRUE)

\* update_notification: the save, then the push.
UpdateNotification(id, req) ==
  LET notification == Find(db.notifications, id)
      updated == NotificationApply(notification, req, now) IN
    IF notification = NoDoc
    THEN /\ UNCHANGED <<db, now, nextId, deleted, inflight>>
         /\ Reply("notifications",
                  Resp("update_notification_endpoint", id, req, NoDoc, NoDoc, 404))
    ELSE \E g \in GatewayStatuses :
           /\ db' = [db EXCEPT !.notifications = Save(@, updated)]
           /\ UNCHANGED <<now, nextId, deleted, inflight>>
           /\ Reply("notifications",
                    IF PushFailed(g)
                    THEN Resp("update_notification_endpoint", id, req, notification,
                              NoDoc, g)
                    ELSE Resp("update_notification_endpoint", id, req, notification,
                              updated, 200))

DeleteNotification(id) ==
  LET notification == Find(db.notifications, id) IN
    IF notification = NoDoc
    THEN /\ UNCHANGED <<db, now, nextId, deleted, inflight>>
         /\ Reply("notifications",
                  Resp("delete_notification_endpoint", id, NoReq, NoDoc, NoDoc, 404))
    ELSE /\ db' = [db EXCEPT !.notifications = Remove(@, id)]
         /\ deleted' = deleted \cup {<<"notifications", id>>}
         /\ UNCHANGED <<now, nextId, inflight>>
         /\ Reply("notifications",
                  Resp("delete_notification_endpoint", id, NoReq, notification, NoDoc, 204))

(***************************************************************************)
(* The clock.                                                              *)
(***************************************************************************)
Tick ==
  /\ now < MaxClock
  /\ now' = now + 1
  /\ UNCHANGED <<db, nextId, last, deleted, inflight>>

Init ==
  /\ db = [k \in Kinds |-> <<>>]
  /\ now = 0
  /\ nextId = 1
  /\ last = [op |-> "none", id |-> 0, req |-> NoReq, pre |-> NoDoc, out |-> NoDoc,
             status |-> 0, kind |-> "none", at |-> 0, existed |-> FALSE, wrote |-> FALSE,
             removed |-> FALSE, stale |-> FALSE]
  /\ deleted = {}
  /\ inflight = <<>>

(***************************************************************************)
(* Every resource type, each handler running without interruption, with a  *)
(* small set of inputs per resource type.                                  *)
(***************************************************************************)

\* No handler of one resource type reads or writes the collection of another,
\* so a behaviour works on one collection: a handler runs only while every
\* other collection is, and has always been, empty.
Only(kind) ==
  /\ \A k \in Kinds \ {kind} : db[k] = <<>>
  /\ \A d \in deleted : d[1] = kind

Next ==
  \/ \E req \in EventCreateOver({"a"}, {0}, {<<>>}, {"upcoming"}) :
       Only("events") /\ CreateEvent(req)
  \/ \E id \in Ids : Only("events") /\ GetEvent(id)
  \/ \E id \in Ids, req \in EventUpdateOver({"title", "status"}, Titles, {}, {}, {"upcoming", "completed"}) :
       Only("events") /\ UpdateEvent(id, req)
  \/ \E id \in Ids : Only("events") /\ DeleteEvent(id)
  \/ \E req \in PromotionCreateOver({"a"}, {5000}, {<<>>}, {"upcoming"}) :
       Only("promotions") /\ CreatePromotion(req)
  \/ \E id \in Ids : Only("promotions") /\ GetPromotion(id)
  \/ \E id \in Ids, req \in PromotionUpdateOver({"title", "discount"}, Titles, {5000, 10000}, {}, {}) :
       Only("promotions") /\ UpdatePromotion(id, req)
  \/ \E id \in Ids : Only("promotions") /\ DeletePromotion(id)
  \/ \E req \in BusinessCreateOver({"a"}, {<<>>}, {"pending"}) :
       Only("businesses") /\ CreateBusiness(req)
  \/ \E id \in Ids : Only("businesses") /\ GetBusiness(id)
  \/ \E id \in Ids, req \in BusinessUpdateOver({"name", "status"}, Titles, {}, {"pending", "active"}) :
       Only("businesses") /\ UpdateBusiness(id, req)
  \/ \E id \in Ids : Only("businesses") /\ DeleteBusiness(id)
  \/ \E req \in MessageCreateOver({"hi"}) :
       Only("messages") /\ CreateMessage(req)
  \/ \E id \in Ids : Only("messages") /\ GetMessage(id)
  \/ \E id \in Ids, req \in MessageUpdateOver({"content", "read"}, {"hi", "yo"}, {}) :
       Only("messages") /\ UpdateMessage(id, req)
  \/ \E id \in Ids : Only("messages") /\ DeleteMessage(id)
  \/ \E req \in UserCreateOver({"x@e"}, {"ann"}, {"user"}) :
       Only("users") /\ CreateUser(req)
  \/ \E id \in Ids : Only("users") /\ GetUser(id)
  \/ \E id \in Ids, req \in UserUpdateOver({"full_name", "role"}, Names, {"user", "admin"}) :
       Only("users") /\ UpdateUser(id, req)
  \/ \E id \in Ids : Only("users") /\ DeleteUser(id)
  \/ \E req \in TicketCreateOver({"VIP"}, {100}, {5}, {}) :
       Only("tickets") /\ CreateTicket(req)
  \/ \E id \in Ids : Only("tickets") /\ GetTicket(id)
  \/ \E id \in Ids, req \in TicketUpdateOver({"price", "quantity"}, {}, {0, 100}, {0, 5}, {}, {}) :
       Only("tickets") /\ UpdateTicket(id, req)
  \/ \E id \in Ids : Only("tickets") /\ DeleteTicket(id)
  \/ \E req \in ReviewCreateOver({[star |-> 5]}, {"good"}) :
       Only("reviews") /\ CreateReview(req)
  \/ \E id \in Ids : Only("reviews") /\ GetReview(id)
  \/ \E id \in Ids, req \in ReviewUpdateOver({"rating", "comment"}, {[star |-> 0], [star |-> 5]}, {"", "good"}) :
       Only("reviews") /\ UpdateReview(id, req)
  \/ \E id \in Ids : Only("reviews") /\ DeleteReview(id)
  \/ \E req \in ProfileCreateOver({"dj"}, {TRUE}, {<<>>}) :
       Only("profiles") /\ CreateProfile(req)
  \/ \E id \in Ids : Only("profiles") /\ GetProfile(id)
  \/ \E id \in Ids, req \in ProfileUpdateOver({"bio", "allow_chat"}, {"", "dj"}, {}) :
       Only("profiles") /\ UpdateProfile(id, req)
  \/ \E id \in Ids : Only("profiles") /\ DeleteProfile(id)
  \/ \E req \in NotificationCreateOver({"news"}, {"general"}) :
       Only("notifications") /\ CreateNotification(req)
  \/ \E id \in Ids : Only("notifications") /\ GetNotification(id)
  \/ \E id \in Ids, req \in NotificationUpdateOver({"title", "type"}, {"", "news"}, {"general", "event"}) :
       Only("notifications") /\ UpdateNotification(id, req)
  \/ \E id \in Ids : Only("notifications") /\ DeleteNotification(id)
  \/ Tick

Spec == Init /\ [][Next]_vars

(***************************************************************************)
(* The user collection with update_user suspended at its await: other      *)
(* requests run between its fetch and its save.                            *)
(***************************************************************************)
NextRace ==
  \/ \E req \in UserCreateOver({"x@e"}, {"ann"}, {"user"}) :
       CreateUser(req)
  \/ \E id \in Ids : GetUser(id)
  \/ \E id \in Ids, req \in UserUpdateOver({"full_name", "role"}, Names, {"user", "admin"}) :
       BeginUpdateUser(id, req)
  \/ FinishUpdateUser
  \/ \E id \in Ids : DeleteUser(id)
  \/ Tick

SpecRace == Init /\ [][NextRace]_vars

\* The event collection alone, with every combination of dates.

NextEvent ==
  \/ \E req \in EventCreateOver({"a"}, Dates, {<<>>}, {"upcoming"}) :
       CreateEvent(req)
  \/ \E id \in Ids : GetEvent(id)
  \/ \E id \in Ids, req \in EventUpdateOver({"date", "end_date"}, {"a"}, Dates, {<<>>}, {"upcoming"}) :
       UpdateEvent(id, req)
  \/ \E id \in Ids : DeleteEvent(id)
  \/ Tick

SpecEvent == Init /\ [][NextEvent]_vars

\* The ticket collection alone, with every combination of sale dates.

NextTicket ==
  \/ \E req \in TicketCreateOver({"VIP"}, {100}, {5}, Dates) :
       CreateTicket(req)
  \/ \E id \in Ids : GetTicket(id)
  \/ \E id \in Ids, req \in TicketUpdateOver({"sale_start_date", "sale_end_date"}, {"VIP"}, {100}, {5}, {"Available"}, Dates) :
       UpdateTicket(id, req)
  \/ \E id \in Ids : DeleteTicket(id)
  \/ Tick

SpecTicket == Init /\ [][NextTicket]_vars

\* The promotion collection alone, with discounts at and around both ends of
\* the allowed range.

NextPromotion ==
  \/ \E req \in PromotionCreateOver({"a"}, {0, 5000, 100 * 100, 100 * 100 + 1}, {<<>>}, {"upcoming"}) :
       CreatePromotion(req)
  \/ \E id \in Ids : GetPromotion(id)
  \/ \E id \in Ids,
        req \in PromotionUpdateOver({"title", "discount"}, {"b"}, {0, 5000, 100 * 100, 100 * 100 + 1},
                                    {<<>>}, {"upcoming"}) :
       UpdatePromotion(id, req)
  \/ \E id \in Ids : DeletePromotion(id)
  \/ Tick

SpecPromotion == Init /\ [][NextPromotion]_vars

(***************************************************************************)
(* The user routes alone, with two emails and room for one more account    *)
(* than the other specifications keep.                                     *)
(***************************************************************************)
NextUser ==
  \/ \E req \in UserCreateOver({"x@e", "y@e"}, {"ann"}, {"user"}) :
       CreateUserUpTo(req, MaxDocs + 1)
  \/ \E id \in Ids : GetUser(id)
  \/ \E id \in Ids, req \in UserUpdateOver({"full_name"}, {"bob"}, {"user"}) :
       UpdateUser(id, req)
  \/ \E id \in Ids : DeleteUser(id)
  \/ Tick

SpecUser == Init /\ [][NextUser]_vars

(***************************************************************************)
(* Concurrent registrations: create_user split at its await, so that       *)
(* another create_user runs between its lookup and its insert.             *)
(***************************************************************************)
NextSignup ==
  \/ \E req \in UserCreateOver({"x@e", "y@e"}, {"ann", "bob"}, {"user"}) :
       CreateUserUpTo(req, MaxDocs + 1)
  \/ \E req \in UserCreateOver({"x@e", "y@e"}, {"ann", "bob"}, {"user"}) :
       BeginCreateUser(req)
  \/ FinishCreateUserUpTo(MaxDocs + 1)
  \/ \E id \in Ids : GetUser(id)
  \/ Tick

SpecSignup == Init /\ [][NextSignup]_vars

(***************************************************************************)
(* The message reactions, each handler run without interruption.           *)
(***************************************************************************)
Reactions == ReactionsOver({"u1"}, {"heart", "fire"})

NextReact ==
  \/ \E req \in MessageCreateOver({"hi"}) : CreateMessage(req)
  \/ \E id \in Ids, reaction \in Reactions : AddReaction(id, reaction)
  \/ \E id \in Ids, target \in Reactions : RemoveReaction(id, target)
  \/ \E id \in Ids,
        req \in MessageUpdateOver({"reactions"}, {},
                                  {[i \in 1..4 |-> [emoji |-> <<"heart", "fire", "heart", "star">>[i],
                                                    user_id |-> "u1"]]}) :
       UpdateMessage(id, req)
  \/ \E id \in Ids : DeleteMessage(id)
  \/ Tick

SpecReact == Init /\ [][NextReact]_vars

\* add_reaction split at its await, so that another add_reaction runs between
\* its fetch and its save.
NextReactRace ==
  \/ \E req \in MessageCreateOver({"hi"}) : CreateMessage(req)
  \/ \E id \in Ids, reaction \in Reactions : AddReaction(id, reaction)
  \/ \E id \in Ids, reaction \in Reactions : BeginAddReaction(id, reaction)
  \/ FinishAddReaction

SpecReactRace == Init /\ [][NextReactRace]_vars

(***************************************************************************)
(* The notification routes, the list included.                             *)
(***************************************************************************)
NextNotify ==
  \/ \E req \in NotificationCreateOver({"news", "late"}, {"general"}) :
       CreateNotification(req)
  \/ \E id \in Ids : GetNotification(id)
  \/ \E id \in Ids, req \in NotificationUpdateOver({"title"}, {"", "news"}, {}) :
       UpdateNotification(id, req)
  \/ \E id \in Ids : DeleteNotification(id)
  \/ ListNotifications
  \/ Tick

SpecNotify == Init /\ [][NextNotify]_vars

(***************************************************************************)
(* The profile routes with the special-case mutators; add_emoji both run   *)
(* without interruption and split at its await.                            *)
(***************************************************************************)
NextProfile ==
  \/ \E req \in ProfileCreateOver({"dj"}, {TRUE}, {<<>>, <<"u1", "u1">>}) :
       CreateProfile(req)
  \/ \E id \in Ids :
       AddComment(id, [commenter_id |-> "u1", comment |-> "hi", timestamp |-> now,
                       approved |-> FALSE])
  \/ \E id \in Ids, emoji \in {"heart", "thumbs_up"} : AddEmojiRating(id, emoji)
  \/ \E id \in Ids, emoji \in {"heart", "thumbs_up"} : BeginAddEmojiRating(id, emoji)
  \/ FinishAddEmojiRating
  \/ \E id \in Ids, u \in {"u1", "u2"} : BlockUser(id, u)
  \/ \E id \in Ids, u \in {"u1", "u2"} : UnblockUser(id, u)
  \/ Tick

SpecProfile == Init /\ [][NextProfile]_vars

(***************************************************************************)
(* The list routes.  Events may number one more than the other             *)
(* specifications keep, so that a window can cut a list.                   *)
(***************************************************************************)
Categories == {"food", "entertainment"}
CategoryLists == {<<>>, <<"food">>, <<"entertainment", "food">>}
Skips == 0..MaxDocs
Limits == 0..(MaxDocs + 1)

NextList ==
  \/ \E req \in EventCreateOver({"a"}, {0}, CategoryLists, {"upcoming"}) :
       Only("events") /\ CreateEventUpTo(req, MaxDocs + 1)
  \/ \E id \in Ids : Only("events") /\ DeleteEvent(id)
  \/ \E skip \in Skips, limit \in Limits : Only("events") /\ ListEvents(skip, limit)
  \/ \E c \in Categories, skip \in Skips, limit \in Limits :
       Only("events") /\ ListEventsByCategory(c, skip, limit)
  \/ \E req \in PromotionCreateOver({"a"}, {5000}, CategoryLists, {"upcoming"}) :
       Only("promotions") /\ CreatePromotion(req)
  \/ \E c \in Categories, skip \in Skips, limit \in Limits :
       Only("promotions") /\ ListPromotionsByCategory(c, skip, limit)
  \/ \E req \in BusinessCreateOver({"a"}, CategoryLists, {"pending"}) :
       Only("businesses") /\ CreateBusiness(req)
  \/ \E c \in Categories, skip \in Skips, limit \in Limits :
       Only("businesses") /\ ListBusinessesByCategory(c, skip, limit)

SpecList == Init /\ [][NextList]_vars

\* GET requests of the event and business routers by path, with the default
\* skip and limit.
NextRoute ==
  \/ \E req \in EventCreateOver({"a"}, Dates, {<<"food">>}, {"upcoming", "completed"}) :
       CreateEvent(req)
  \/ \E req \in BusinessCreateOver({"a"}, {<<"food">>}, {"pending", "active"}) :
       CreateBusiness(req)
  \/ \E path \in {<<>>, <<"1">>, <<"upcoming">>, <<"past">>,
                    <<"category", "food">>, <<"category", "x">>, <<"a", "b", "c">>} :
       GetEventPath(path, 0, 10)
  \/ \E path \in {<<>>, <<"1">>, <<"active">>, <<"category", "food">>} :
       GetBusinessPath(path, 0, 10)
  \/ Tick

SpecRoute == Init /\ [][NextRoute]_vars

\* The upcoming and past lists, over events of every status and date while the
\* clock moves.
NextWhen ==
  \/ \E req \in EventCreateOver({"a"}, Dates, {<<>>},
                                 {"upcoming", "completed", "cancelled"}) :
       req.end_date = NoneDate /\ CreateEventUpTo(req, MaxDocs + 1)
  \/ \E skip \in Skips, limit \in Limits : ListUpcomingEvents(skip, limit)
  \/ \E skip \in Skips, limit \in Limits : ListPastEvents(skip, limit)
  \/ Tick

SpecWhen == Init /\ [][NextWhen]_vars

(***************************************************************************)
(* The handlers by what they do, for every resource type.                  *)
(***************************************************************************)
GetHandlers ==
  {"read_event", "read_promotion", "read_business", "read_message", "read_user",
   "read_ticket", "read_review", "read_user_profile", "get_notification_endpoint"}

UpdateHandlers ==
  {"update_existing_event", "update_existing_promotion", "update_existing_business",
   "update_existing_message", "update_existing_user", "update_existing_ticket",
   "update_existing_review", "update_existing_user_profile",
   "update_notification_endpoint"}

DeleteHandlers ==
  {"delete_existing_event", "delete_existing_promotion", "delete_existing_business",
   "delete_existing_message", "delete_existing_user", "delete_existing_ticket",
   "delete_existing_review", "delete_existing_user_profile",
   "delete_notification_endpoint"}

\* The attributes an update payload can carry.
Updatable(req) == (DOMAIN req) \ {"fields_set"}

\* The stored document the latest request addressed.
Stored == Find(db[last.kind], last.id)

(***************************************************************************)
(* Properties of updates and deletes, every resource type.                 *)
(***************************************************************************)
\* C1: after an update of an existing document, every attribute the payload
\* did not supply has, in the stored document and in the returned
\* representation, the value it had before the update.
OmittedFieldsUnchanged ==
  (last.op \in UpdateHandlers /\ last.existed) =>
    \A f \in Updatable(last.req) \ last.req.fields_set :
      /\ Stored[f] = last.pre[f]
      /\ last.status = 200 => last.out[f] = last.pre[f]

UpdateOmittedAField ==
  /\ last.op \in UpdateHandlers
  /\ last.existed
  /\ last.status = 200
  /\ last.wrote
  /\ last.req.fields_set # {}
  /\ Updatable(last.req) \ last.req.fields_set # {}

\* C2: after an update of an existing document, every attribute the payload
\* supplied holds the supplied value in the stored document.
SuppliedFieldsStored ==
  (last.op \in UpdateHandlers /\ last.existed /\ last.status = 200) =>
    \A f \in last.req.fields_set : Stored[f] = last.req[f]

\* C3: after a successful update of an existing document, made when the clock
\* had moved past the document's updated_at, the stored updated_at is greater
\* than it was before the update.
UpdatedAtAdvances ==
  (/\ last.op \in UpdateHandlers
   /\ last.existed
   /\ last.status = 200
   /\ last.pre.updated_at < last.at) => Stored.updated_at > last.pre.updated_at

\* C4: a delete on an identity that has a document removes the document and
\* answers 204.
DeleteReportsSuccess ==
  (last.op \in DeleteHandlers /\ last.existed) => (last.removed /\ last.status = 204)

\* C5: once a document has been deleted, a fetch of its identity answers 404
\* and so does another delete of it.
DeletedIsNotFound ==
  (/\ last.op \in GetHandlers \cup DeleteHandlers
   /\ <<last.kind, last.id>> \in deleted
   /\ ~last.removed) => (last.status = 404 /\ ~last.wrote)

SecondDeleteNotFound ==
  /\ last.op \in DeleteHandlers
  /\ <<last.kind, last.id>> \in deleted
  /\ ~last.removed
  /\ last.status = 404

DeletionIrreversible ==
  \A d \in deleted : ~Has(db[d[1]], d[2])

(***************************************************************************)
(* Properties of the event collection.                                     *)
(***************************************************************************)
\* C8: every stored event that has an end_date has end_date >= date.
EventEndNotBeforeDate ==
  \A i \in DOMAIN db.events :
    db.events[i].end_date # NoneDate => db.events[i].end_date >= db.events[i].date

\* C9: create_event with end_date before date answers with a validation error
\* and stores nothing; with end_date equal to date, later than date, or absent,
\* it answers 201 and the event it returns is the stored one, with the dates
\* of the input.
CreateEventEndDateRule ==
  last.op = "create_new_event" =>
    IF last.req.end_date # NoneDate /\ last.req.end_date < last.req.date
    THEN last.status = 422 /\ ~last.wrote /\ last.out = NoDoc
    ELSE /\ last.status = 201
         /\ last.wrote
         /\ Find(db.events, last.id) = last.out
         /\ last.out.date = last.req.date
         /\ last.out.end_date = last.req.end_date

CreateEventRejected ==
  /\ last.op = "create_new_event"
  /\ last.req.end_date # NoneDate
  /\ last.req.end_date < last.req.date
  /\ last.status = 422

(***************************************************************************)
(* Properties of the ticket collection.                                    *)
(***************************************************************************)
\* C10: every stored ticket that has both sale dates has
\* sale_end_date >= sale_start_date.
TicketSaleWindowOrdered ==
  \A i \in DOMAIN db.tickets :
    (db.tickets[i].sale_start_date # NoneDate /\ db.tickets[i].sale_end_date # NoneDate)
      => db.tickets[i].sale_end_date >= db.tickets[i].sale_start_date

(***************************************************************************)
(* Properties of the promotion collection.                                 *)
(***************************************************************************)
\* C11: every stored promotion has a discount d with 0 < d <= 100.
PromotionDiscountInRange ==
  \A i \in DOMAIN db.promotions : DiscountOk(db.promotions[i].discount)

\* C12: create_promotion with a discount of 0 or of 100.01 fails and stores
\* nothing; with a discount of 100 (or any other in range) it answers 201 and
\* the promotion it returns is the stored one, with the discount of the input.
CreatePromotionDiscountRule ==
  last.op = "create_new_promotion" =>
    IF last.req.discount \in {0, 100 * 100 + 1}
    THEN last.status >= 400 /\ ~last.wrote /\ last.out = NoDoc
    ELSE /\ last.status = 201
         /\ last.wrote
         /\ Find(db.promotions, last.id) = last.out
         /\ last.out.discount = last.req.discount

CreatePromotionZeroRejected ==
  /\ last.op = "create_new_promotion"
  /\ last.req.discount = 0
  /\ last.status >= 400
  /\ ~last.wrote

\* C13: create_user with an email that a stored user already has answers 400,
\* inserts nothing and leaves the collection, so the existing account, exactly
\* as it was; with an email no stored user has, it answers 201 and the account
\* it stores carries that email.
CreateUserEmailTaken ==
  last.op = "create_new_user" =>
    IF \E i \in DOMAIN db.users :
         db.users[i].email = last.req.email /\ db.users[i].id # last.id
    THEN last.status = 400 /\ ~last.wrote /\ last.out = NoDoc
    ELSE /\ last.status = 201 /\ last.wrote
         /\ Has(db.users, last.id)
         /\ Find(db.users, last.id).email = last.req.email

CreateUserConflict ==
  /\ last.op = "create_new_user" /\ last.status = 400
  /\ \E i \in DOMAIN db.users : db.users[i].email = last.req.email
  /\ ~last.wrote

\* C14: add_reaction_to_message followed by remove_reaction_from_message with the
\* same user and emoji leaves the message's reactions as they were before the
\* add, whatever they were (the same reaction already present included).
AddThenRemoveRestores ==
  [][(/\ last.op = "add_reaction" /\ last.status = 200 /\ ~last.stale
      /\ last'.op = "remove_reaction" /\ last'.status = 200
      /\ last'.id = last.id /\ last'.req = last.req)
     => Find(db'.messages, last.id).reactions = last.pre.reactions]_vars

\* C15: when two add_reaction_to_message calls both fetch the message before
\* either saves, both answer 200, and after the later save the stored message is
\* the one that call fetched with its own reaction appended: the reaction the
\* earlier save appended is not in it.
LaterSaveOverwrites ==
  (last.op = "add_reaction" /\ last.pre # NoDoc) =>
    /\ last.status = 200
    /\ Stored = ReactionAdded(last.pre, last.req, last.at)
    /\ last.out = Stored

StaleSaveSucceeded ==
  /\ last.op = "add_reaction" /\ last.stale /\ last.status = 200
  /\ Has(db.messages, last.id)
  /\ Stored.reactions = <<last.req>>

ListWindowExact ==
  (last.op = "read_all_events" /\ last.status = 200) =>
    LET skip == last.req.skip
        limit == last.req.limit IN
      /\ Len(last.out) <= limit
      /\ \A p \in DOMAIN last.out :
           skip + p \in DOMAIN db.events /\ last.out[p] = db.events[skip + p]
      /\ \A q \in DOMAIN db.events :
           (skip < q /\ q <= skip + limit) => q - skip \in DOMAIN last.out

\* C19: no two documents of a collection have the same identity, and the
\* identity a create returns was the identity of no document of the collection
\* when the create was called.
IdentitiesUnique ==
  /\ \A k \in Kinds : \A i, j \in DOMAIN db[k] : db[k][i].id = db[k][j].id => i = j
  /\ last.status = 201 => (~last.existed /\ last.out.id = last.id /\ Has(db[last.kind], last.id))

SecondCreateNewIdentity ==
  /\ last.op = "create_new_user" /\ last.status = 201
  /\ Len(db.users) = MaxDocs + 1
  /\ \E i \in DOMAIN db.users : db.users[i].id # last.id

\* C20 as claimed: the document a successful create returns has created_at equal
\* to updated_at, both equal to the time of the create call.
CreateTimestampsEqualCall ==
  last.status = 201 =>
    last.out.created_at = last.at /\ last.out.updated_at = last.out.created_at

\* C20, amended: the document a successful create returns has created_at equal to
\* the time of the create call, and updated_at is a second reading of the clock:
\* never earlier than created_at and at most one clock step later.
CreateTimestampsNearCall ==
  last.status = 201 =>
    /\ last.out.created_at = last.at
    /\ last.out.updated_at >= last.out.created_at
    /\ last.out.updated_at <= last.out.created_at + 1
    /\ Stored.created_at = last.out.created_at
    /\ Stored.updated_at = last.out.updated_at

CreateClockMoved ==
  /\ last.op = "create_new_message" /\ last.status = 201
  /\ last.out.updated_at = last.at + 1

\* C21: every stored document of every resource type has updated_at >= created_at.
UpdatedNotBeforeCreated ==
  \A k \in Kinds : \A i \in DOMAIN db[k] : db[k][i].updated_at >= db[k][i].created_at

UpdatedAfterCreated ==
  /\ last.op = "update_existing_user" /\ last.status = 200
  /\ Has(db.users, last.id)
  /\ Stored.updated_at > Stored.created_at

MutatorRefreshesUpdatedAt ==
  (/\ last.op \in {"add_reaction", "remove_reaction", "add_comment", "add_emoji",
                   "block_user_from_profile", "unblock_user_from_profile"}
   /\ last.pre # NoDoc /\ last.status = 200) =>
    /\ Has(db[last.kind], last.id)
    /\ Stored.updated_at = last.at
    /\ last.out.updated_at = last.at

UnblockedIsAbsent ==
  (last.op = "unblock_user_from_profile" /\ last.status = 200) =>
    /\ \A i \in DOMAIN Stored.blocked_users : Stored.blocked_users[i] # last.req
    /\ \A i \in DOMAIN last.out.blocked_users : last.out.blocked_users[i] # last.req

GatewayFailureIsServerError ==
  (/\ last.op \in {"create_notification_endpoint", "update_notification_endpoint"}
   /\ last.status \notin {200, 404}) =>
    (last.status >= 500 /\ last.status < 600)

\* C30: a create_notification whose push the gateway refuses answers with an
\* error and leaves the new document in the collection, where the next read of
\* its identity and the next list return it.
FailedPushKeepsDocument ==
  [][/\ (/\ last'.op = "create_notification_endpoint" /\ last'.status # 200
          /\ nextId' # nextId) =>
           /\ last'.status >= 400
           /\ ~Has(db.notifications, last'.id)
           /\ Has(db'.notifications, last'.id)
           /\ Find(db'.notifications, last'.id).title = last'.req.title
     /\ (/\ last.op = "create_notification_endpoint" /\ last.status # 200
          /\ last'.op = "get_notification_endpoint" /\ last'.id = last.id) =>
           /\ last'.status = 200
           /\ last'.out = Find(db.notifications, last.id)
           /\ last'.out.title = last.req.title
     /\ (/\ last.op = "create_notification_endpoint" /\ last.status # 200
          /\ last'.op = "get_all_notifications_endpoint") =>
           /\ last'.status = 200
           /\ \E i \in DOMAIN last'.out : last'.out[i].id = last.id]_vars

CreateFailedAtGateway ==
  /\ last.op = "create_notification_endpoint" /\ last.status = 500
  /\ Has(db.notifications, last.id)

\* C26: under any interleaving of concurrent create_user calls, no two stored
\* users have the same email.
EmailsUnique ==
  \A i, j \in DOMAIN db.users : db.users[i].email = db.users[j].email => i = j

\* C25: a GET for the event paths /upcoming and /past and for the business path
\* /active is not answered by the route of the fetch-by-identity handler (which
\* refuses a segment that spells no identity with 422), and the first route
\* matching each of these paths is the one of its filtered-list handler.
FilteredListsDispatched ==
  /\ (last.op = "read_event" /\ last.status = 422) =>
       /\ last.req.path \notin {<<"upcoming">>, <<"past">>}
       /\ Handler(EventRoutes, <<"upcoming">>) = "read_upcoming_events"
       /\ Handler(EventRoutes, <<"past">>) = "read_past_events"
  /\ (last.op = "read_business" /\ last.status = 422) =>
       /\ last.req.path # <<"active">>
       /\ Handler(BusinessRoutes, <<"active">>) = "read_active_businesses"
====
